---- MODULE Spec2Model ----
(***************************************************************************)
(* Model of the Smart Rental Tracking ML service.                          *)
(*                                                                         *)
(*   src/ml/smart_ml_system.py    SmartMLSystem: data loading, training,   *)
(*                                forecasting, anomaly detection,          *)
(*                                persistence                              *)
(*   src/ml/fastapi_ml_service.py the request handlers and the reload      *)
(*                                callback on_database_change              *)
(*   src/ml/database_watcher.py   the watcher that starts the callback on  *)
(*                                a new thread                             *)
(*                                                                         *)
(* A fitted estimator is represented by the version of the dataset it was  *)
(* fitted on (every fit in the source is deterministic: random_state=42),  *)
(* Unfitted for an estimator that was only constructed.                    *)
(*                                                                         *)
(* The specifications share the definitions:                               *)
(*   Spec        the service: reload threads, the event loop's handlers,   *)
(*               the files on disk;                                        *)
(*   SpecEngine  the engine on one constructed SmartMLSystem and one live  *)
(*               snapshot: forecast_demand, detect_anomalies and the two   *)
(*               handlers in front of them, with their full results;       *)
(*   SpecAnomaly the anomaly scan and its handler on the live snapshots    *)
(*               the rules distinguish;                                    *)
(*   SpecFeatures the derived columns of one row on each code path;        *)
(*   SpecServe   the service with the inference handlers in steps, next to *)
(*               the reload threads;                                       *)
(*   SpecReload  the reload threads alone, under fair scheduling;          *)
(*   SpecWatch   one DatabaseChangeHandler and the events it is handed.    *)
(***************************************************************************)
EXTENDS Integers, Sequences, FiniteSets, TLC

VARIABLES
    \* ---- module globals of fastapi_ml_service.py
    ml_system,             \* 0 (None) or the id of the serving SmartMLSystem
    restart_flag,
    last_database_change,  \* 0 (None) or the clock value stored
    reload_lock,           \* 0 (free) or the thread holding it
    is_reloading,
    \* ---- objects and files
    heap,                  \* id -> SmartMLSystem instance
    csv,                   \* database/data.csv on disk
    saved,                 \* the models directory on disk
    \* ---- control
    pc,                    \* position of each on_database_change thread
    clock,                 \* datetime.now(), in events
    handler,               \* the request handler running on the event loop
    response,              \* what the last finished handler returned
    \* ---- engine calls (SpecEngine)
    live,                  \* the Equipment table of rental.db
    call,                  \* the last engine call and its arguments
    result,                \* what it returned
    predicts,              \* what the fitted regressors predict, per forecast day
    metrics,  \* the derived columns of one row, per code path (SpecFeatures)
    watch     \* the DatabaseChangeHandler, time.time() and its events (SpecWatch)

svcVars == <<ml_system, restart_flag, last_database_change, reload_lock,
             is_reloading, heap, csv, saved, pc, clock, handler, response>>
engVars == <<live, call, result, predicts>>
vars == <<ml_system, restart_flag, last_database_change, reload_lock,
          is_reloading, heap, csv, saved, pc, clock, handler, response, live, call, result,
          predicts, metrics, watch>>

----------------------------------------------------------------------------
(* Bounds of the model *)

\* on_database_change threads the watcher starts
MaxThreads == 2

\* forecast days a request asks for
MaxDays == 2

\* seconds of time.time() the watcher is followed for
MaxTime == 4

\* modification events a DatabaseChangeHandler is handed
MaxEvents == 3

Threads == 1..MaxThreads
InstIds == 1..(MaxThreads + 1)
InstOfThread(t) == t + 1

----------------------------------------------------------------------------
(* Tables: rental rows counted by (Type, User ID) *)

Types == {"Excavator", "Grader"}
SiteIds == {"S1", "S2"}
UNASSIGNED == "UNASSIGNED"
DataSites == SiteIds \cup {UNASSIGNED}
Cells == Types \X DataSites

RECURSIVE SumOver(_, _)
SumOver(f, S) ==
    IF S = {} THEN 0
    ELSE LET c == CHOOSE x \in S : TRUE IN f[c] + SumOver(f, S \ {c})

MkCnt(e1, e2, eu, g1, g2, gu) ==
    [c \in Cells |->
        CASE c = <<"Excavator", "S1">> -> e1
          [] c = <<"Excavator", "S2">> -> e2
          [] c = <<"Excavator", UNASSIGNED>> -> eu
          [] c = <<"Grader", "S1">> -> g1
          [] c = <<"Grader", "S2">> -> g2
          [] c = <<"Grader", UNASSIGNED>> -> gu]

\* len(self.data)
Rows(d) == SumOver(d.cnt, Cells)
\* len(self.data.dropna(subset=feature_columns))
CleanRows(d) == Rows(d) - d.dirty
TypesIn(d) == {ty \in Types : \E s \in DataSites : d.cnt[<<ty, s>>] > 0}
SitesIn(d) == {s \in DataSites : \E ty \in Types : d.cnt[<<ty, s>>] > 0}
SiteRows(d, s) == SumOver(d.cnt, {c \in Cells : c[2] = s})

----------------------------------------------------------------------------
(* Timestamps.  Day 0 is Monday 2024-02-26; a timestamp counts half days,  *)
(* so that a check-out date carries a time of day.                         *)

TicksPerDay == 2
\* pandas NaT: what errors='coerce' leaves for an unparseable date
NaT == -1
DayOf(ts) == ts \div TicksPerDay
\* datetime.weekday() / Timestamp.dayofweek: Monday is 0
Weekday(ts) == DayOf(ts) % 7
\* 2024-02-26 .. 2024-02-29 are days 0..3, 2024-03-01 is day 4, and
\* 2024-12-01 is day 279
MonthOf(ts) ==
    LET d == DayOf(ts) IN
    IF d <= 3 THEN 2 ELSE IF d <= 34 THEN 3 ELSE IF d <= 64 THEN 4
    ELSE IF d <= 95 THEN 5 ELSE IF d <= 125 THEN 6 ELSE IF d <= 156 THEN 7
    ELSE IF d <= 187 THEN 8 ELSE IF d <= 217 THEN 9 ELSE IF d <= 248 THEN 10
    ELSE IF d <= 278 THEN 11 ELSE 12
\* future_date.strftime('%Y-%m-%d'): the day, the time of day dropped
FormatDate(ts) == DayOf(ts)
\* last_date + timedelta(days=n)
PlusDays(ts, n) == ts + n * TicksPerDay

----------------------------------------------------------------------------
(* data.csv and the datasets it can hold *)

ZeroSites == [s \in DataSites |-> 0]
NoDates == [c \in Cells |-> NaT]
\* Engine Hours/Day and Idle Hours/Day of a cell's rows, in tenths of an hour
Hours(e, i) == [c \in Cells |-> [engine |-> e, idle |-> i]]

\* self.data = None (read_csv failed)
NoData ==
    [readable |-> FALSE, bad |-> FALSE, ver |-> 0, cnt |-> MkCnt(0, 0, 0, 0, 0, 0),
     dirty |-> 0, siteDirty |-> ZeroSites, last |-> NoDates, hours |-> Hours(0, 0)]

Dataset(ver, cnt, dirty, siteDirty, last) ==
    [readable |-> TRUE, bad |-> FALSE, ver |-> ver, cnt |-> cnt, dirty |-> dirty,
     siteDirty |-> siteDirty, last |-> last, hours |-> Hours(60, 20)]

SomeDates == [c \in Cells |-> IF c[1] = "Excavator" THEN 9 ELSE 4]

\* eight of the rows of site S2 lack a feature
DirtyS2 == [s \in DataSites |-> IF s = "S2" THEN 8 ELSE 0]

\* The contents data.csv takes in the service specification.  ver names the
\* content: two files with the same ver hold the same rows.
Contents ==
    { [Dataset(1, MkCnt(60, 0, 0, 0, 0, 0), 0, ZeroSites, SomeDates)
         EXCEPT !.bad = TRUE],                                         \* a column missing
      Dataset(2, MkCnt(20, 0, 0, 0, 0, 0), 0, ZeroSites, SomeDates),   \* 20 rows
      Dataset(3, MkCnt(40, 12, 0, 10, 0, 8), 8, DirtyS2, SomeDates)    \* 70 rows
    }

----------------------------------------------------------------------------
(* SmartMLSystem *)

\* a constructed, never fitted estimator
Unfitted == 0

NoEncoder == [ver |-> Unfitted, classes |-> {}]
NoSiteModels == [s \in {} |-> Unfitted]

\* SmartMLSystem.__init__ up to self.models_trained = False
Fresh ==
    [data |-> NoData,
     scaler |-> Unfitted,
     anomaly_detector |-> Unfitted,
     demand_forecaster |-> Unfitted,
     site_specific_models |-> NoSiteModels,
     equipment_encoder |-> NoEncoder,
     site_encoder |-> NoEncoder,
     models_trained |-> FALSE]

\* the ModelBank and EncoderState of an instance
BankOf(self) ==
    [scaler |-> self.scaler,
     demand_forecaster |-> self.demand_forecaster,
     site_specific_models |-> self.site_specific_models,
     equipment_encoder |-> self.equipment_encoder,
     site_encoder |-> self.site_encoder,
     models_trained |-> self.models_trained]

_load_data(self, disk) ==
    [self EXCEPT !.data = IF disk.readable THEN disk ELSE NoData]

\* the encoders are fitted here; User ID nulls were filled with UNASSIGNED
_preprocess_data(self) ==
    [self EXCEPT
        !.equipment_encoder = [ver |-> self.data.ver, classes |-> TypesIn(self.data)],
        !.site_encoder = [ver |-> self.data.ver, classes |-> SitesIn(self.data)]]

\* every site with a row gets a model of its own
EligibleSites_any(d) == {s \in DataSites : SiteRows(d, s) > 0}

\* sites that get a model of their own
EligibleSites(d) ==
    {s \in SiteIds : SiteRows(d, s) >= 10 /\ SiteRows(d, s) - d.siteDirty[s] >= 5}

_train_site_specific_models(self) ==
    LET new == EligibleSites(self.data)
        old == self.site_specific_models
    IN  [s \in (DOMAIN old) \cup new |-> IF s \in new THEN self.data.ver ELSE old[s]]

\* where a fit can raise inside _train_models' try block
FailPoints == {"none", "forecaster"}

\* what _train_models prints
TrainOutcome(self, failAt) ==
    IF ~self.data.readable \/ Rows(self.data) < 50 THEN "insufficient"
    ELSE IF CleanRows(self.data) < 30 THEN "insufficient"
    ELSE IF failAt # "none" THEN "error"
    ELSE "trained"

_train_models(self, failAt) ==
    LET v == self.data.ver IN
    IF ~self.data.readable \/ Rows(self.data) < 50 THEN self
    ELSE IF CleanRows(self.data) < 30 THEN self
    ELSE IF failAt = "scaler" THEN
        [self EXCEPT !.models_trained = FALSE]
    ELSE IF failAt = "forecaster" THEN
        [self EXCEPT !.scaler = v, !.models_trained = FALSE]
    ELSE IF failAt = "anomaly" THEN
        [self EXCEPT !.scaler = v, !.demand_forecaster = v,
                     !.site_specific_models = _train_site_specific_models(self),
                     !.models_trained = FALSE]
    ELSE
        [self EXCEPT !.scaler = v, !.demand_forecaster = v,
                     !.site_specific_models = _train_site_specific_models(self),
                     !.anomaly_detector = v,
                     !.models_trained = TRUE]

\* the models directory: absent, or what save_models wrote
NoSaved ==
    [exists |-> FALSE, scaler |-> Unfitted, anomaly_detector |-> Unfitted,
     demand_forecaster |-> Unfitted, equipment_encoder |-> NoEncoder,
     site_encoder |-> NoEncoder, site_files |-> NoSiteModels]

save_models(self, dir) ==
    [exists |-> TRUE,
     scaler |-> self.scaler,
     anomaly_detector |-> self.anomaly_detector,
     demand_forecaster |-> self.demand_forecaster,
     equipment_encoder |-> self.equipment_encoder,
     site_encoder |-> self.site_encoder,
     site_files |->
        [s \in (DOMAIN dir.site_files) \cup (DOMAIN self.site_specific_models) |->
            IF s \in DOMAIN self.site_specific_models
            THEN self.site_specific_models[s] ELSE dir.site_files[s]]]

\* the five joblib.load calls, then the loop over the keys the instance
\* already has; a site without a file gets None (Unfitted here)
_try_load_models(self, dir) ==
    [self EXCEPT
        !.anomaly_detector = dir.anomaly_detector,
        !.demand_forecaster = dir.demand_forecaster,
        !.scaler = dir.scaler,
        !.equipment_encoder = dir.equipment_encoder,
        !.site_encoder = dir.site_encoder,
        !.site_specific_models =
            [s \in DOMAIN self.site_specific_models |->
                IF s \in DOMAIN dir.site_files THEN dir.site_files[s] ELSE Unfitted],
        !.models_trained = TRUE]

\* SmartMLSystem(): [raised, self, log]
SmartMLSystem(disk, dir, failAt) ==
    LET s1 == _load_data(Fresh, disk) IN
    IF ~s1.data.readable THEN [raised |-> FALSE, self |-> s1, log |-> "nodata"]
    ELSE IF s1.data.bad THEN [raised |-> TRUE, self |-> Fresh, log |-> "raised"]
    ELSE LET s2 == _preprocess_data(s1) IN
         IF dir.exists
         THEN [raised |-> FALSE, self |-> _try_load_models(s2, dir), log |-> "loaded"]
         ELSE [raised |-> FALSE, self |-> _train_models(s2, failAt),
               log |-> TrainOutcome(s2, failAt)]

----------------------------------------------------------------------------
(* Numbers.  Demands are held in thousandths, rounded demands in tenths,   *)
(* confidences in millionths, rounded confidences in hundredths.           *)

Min(a, b) == IF a <= b THEN a ELSE b
Max(a, b) == IF a >= b THEN a ELSE b

\* round(num/den, ...) for num >= 0: to the nearest integer, a tie to even
RoundHalfEven(num, den) ==
    LET q == num \div den
        r == num % den
    IN  IF 2 * r < den THEN q
        ELSE IF 2 * r > den THEN q + 1
        ELSE IF q % 2 = 0 THEN q ELSE q + 1

----------------------------------------------------------------------------
(* The derived columns utilization_ratio and efficiency_score of one row,  *)
(* in ten-thousandths, from its Engine Hours/Day and Idle Hours/Day in     *)
(* tenths of an hour.  0/0 is nan in pandas.                               *)

Derived(u, e) == [computed |-> TRUE, utilization_ratio |-> u, efficiency_score |-> e]
NotComputed == [computed |-> FALSE, utilization_ratio |-> 0, efficiency_score |-> 0]

\* _preprocess_data: np.where(total_hours > 0, engine / total_hours, 0) and
\* (engine * 0.6 + (24 - idle) * 0.4) / 24
TrainingFeatures(h) ==
    LET total_hours == h.engine + h.idle
    IN  Derived(IF total_hours > 0 THEN (h.engine * 10000) \div total_hours ELSE 0,
                ((6 * h.engine + 4 * (240 - h.idle)) * 10000) \div 2400)

\* _add_calculated_columns_to_db_data: engine / (engine + idle), nan filled
\* with 0.5, then utilization_ratio * (engine / 8.0), nan filled with 0.5
LiveFeatures(h) ==
    LET total == h.engine + h.idle
        utilization_ratio == IF total = 0 THEN 5000
                             ELSE (h.engine * 10000) \div total
    IN  Derived(utilization_ratio, (utilization_ratio * h.engine) \div 80)

\* detect_anomalies: both columns are computed, then both are filled
ScanFeatures(h) ==
    LET total == h.engine + h.idle
    IN  IF total = 0 THEN Derived(5000, 5000)
        ELSE Derived((h.engine * 10000) \div total,
                     (((h.engine * 10000) \div total) * h.engine) \div 80)

NoMetrics ==
    [row |-> [engine |-> 0, idle |-> 0],
     training |-> NotComputed, live |-> NotComputed, scan |-> NotComputed]

----------------------------------------------------------------------------
(* The live Equipment table and the context rows of a request *)

\* a request argument that is None or the empty string
None == ""
Truthy(x) == x # None

TableOf(t) == [readable |-> t.readable, cnt |-> t.cnt, last |-> t.last, hours |-> t.hours]

\* the rows the query returns, and no data at all when the database is
\* missing or the query raises
_load_database_data_nofallback(self, db) ==
    IF ~db.available THEN TableOf(NoData)
    ELSE IF SumOver(db.cnt, Cells) = 0 THEN TableOf(self.data)
    ELSE [readable |-> TRUE, cnt |-> db.cnt, last |-> db.last, hours |-> db.hours]

\* the rows the query returns; self.data when the database is missing, the
\* query raises or it returns no row
_load_database_data(self, db) ==
    IF ~db.available THEN TableOf(self.data)
    ELSE IF SumOver(db.cnt, Cells) = 0 THEN TableOf(self.data)
    ELSE [readable |-> TRUE, cnt |-> db.cnt, last |-> db.last, hours |-> db.hours]

\* filtered_data[filtered_data['Type'] == equipment_type] and
\* filtered_data[filtered_data['User ID'] == site_id], as cells
Matching(equipment_type, site_id) ==
    {c \in Cells :
        /\ Truthy(equipment_type) => c[1] = equipment_type
        /\ (Truthy(site_id) /\ site_id # UNASSIGNED) => c[2] = site_id}

\* len(filtered_data)
NumRows(t, cells) == SumOver(t.cnt, cells)

\* filtered_data['Check-Out Date'].max(): NaT is skipped, NaT if nothing is left
MaxDate(t, cells) ==
    LET ds == {t.last[c] : c \in {x \in cells : t.cnt[x] > 0 /\ t.last[x] # NaT}}
    IN  IF ds = {} THEN NaT ELSE CHOOSE d \in ds : \A e \in ds : e <= d

----------------------------------------------------------------------------
(* Forecast post-processing *)

\* _apply_realistic_constraints clamping first and scaling afterwards
_apply_realistic_constraints_clampfirst(predicted_demand, future_date, t, cells, equipment_type, site_id) ==
    LET site_equipment == NumRows(t, {c \in cells : c[2] = site_id})
        equipment_data == NumRows(t, {c \in cells : c[1] = equipment_type})
        max0 == 20000
        max1 == IF Truthy(site_id) /\ site_id # UNASSIGNED /\ site_equipment > 0
                THEN Min(max0, site_equipment * 2000) ELSE max0
        max_demand == IF Truthy(equipment_type) /\ equipment_data > 0
                      THEN Min(max1, equipment_data * 1500) ELSE max1
        p0 == Max(0, Min(max_demand, predicted_demand))
        p1 == IF Weekday(future_date) >= 5 THEN (p0 * 6) \div 10 ELSE p0
    IN  IF MonthOf(future_date) \in {12, 1, 2} THEN (p1 * 8) \div 10 ELSE p1

\* _apply_realistic_constraints; predicted_demand and the result in thousandths
_apply_realistic_constraints(predicted_demand, future_date, t, cells, equipment_type, site_id) ==
    LET site_equipment == NumRows(t, {c \in cells : c[2] = site_id})
        equipment_data == NumRows(t, {c \in cells : c[1] = equipment_type})
        max0 == 20000
        max1 == IF Truthy(site_id) /\ site_id # UNASSIGNED /\ site_equipment > 0
                THEN Min(max0, site_equipment * 2000) ELSE max0
        max_demand == IF Truthy(equipment_type) /\ equipment_data > 0
                      THEN Min(max1, equipment_data * 1500) ELSE max1
        p1 == IF Weekday(future_date) >= 5 THEN (predicted_demand * 6) \div 10
              ELSE predicted_demand
        p2 == IF MonthOf(future_date) \in {12, 1, 2} THEN (p1 * 8) \div 10 ELSE p1
    IN  Max(0, Min(max_demand, p2))

\* _calculate_forecast_confidence with the last line returning confidence
\* as computed
Confidence_unclamped(t, cells, equipment_type, site_id, future_date) ==
    LET data_points == NumRows(t, cells)
        data_factor == IF data_points >= 100 THEN 10
                       ELSE IF data_points >= 50 THEN 9
                       ELSE IF data_points >= 20 THEN 8 ELSE 6
        site_data == NumRows(t, {c \in cells : c[2] = site_id})
        site_factor == IF Truthy(site_id) /\ site_id # UNASSIGNED
                       THEN (IF site_data >= 10 THEN 10
                             ELSE IF site_data >= 5 THEN 9 ELSE 7)
                       ELSE 10
        equipment_data == NumRows(t, {c \in cells : c[1] = equipment_type})
        equipment_factor == IF Truthy(equipment_type)
                            THEN (IF equipment_data >= 20 THEN 10
                                  ELSE IF equipment_data >= 10 THEN 9 ELSE 8)
                            ELSE 10
        last == MaxDate(t, cells)
        days_from_last == (future_date - last) \div TicksPerDay
        time_factor == IF last = NaT THEN 50 ELSE Max(50, 100 - days_from_last)
    IN  7 * data_factor * site_factor * equipment_factor * time_factor

\* _calculate_forecast_confidence, in millionths.  last is the maximum
\* check-out date of filtered_data: (future_date - NaT).days is nan, and
\* max(0.5, nan) is 0.5
_calculate_forecast_confidence(t, cells, equipment_type, site_id, future_date) ==
    LET data_points == NumRows(t, cells)
        data_factor == IF data_points >= 100 THEN 10
                       ELSE IF data_points >= 50 THEN 9
                       ELSE IF data_points >= 20 THEN 8 ELSE 6
        site_data == NumRows(t, {c \in cells : c[2] = site_id})
        site_factor == IF Truthy(site_id) /\ site_id # UNASSIGNED
                       THEN (IF site_data >= 10 THEN 10
                             ELSE IF site_data >= 5 THEN 9 ELSE 7)
                       ELSE 10
        equipment_data == NumRows(t, {c \in cells : c[1] = equipment_type})
        equipment_factor == IF Truthy(equipment_type)
                            THEN (IF equipment_data >= 20 THEN 10
                                  ELSE IF equipment_data >= 10 THEN 9 ELSE 8)
                            ELSE 10
        last == MaxDate(t, cells)
        days_from_last == (future_date - last) \div TicksPerDay
        time_factor == IF last = NaT THEN 50 ELSE Max(50, 100 - days_from_last)
        confidence == 7 * data_factor * site_factor * equipment_factor * time_factor
    IN  Min(950000, Max(300000, confidence))

----------------------------------------------------------------------------
(* The engine's two calls.  A result is a dict; the keys the model keeps:  *)
(* error (None when absent), forecasts, anomalies, and reads, the number   *)
(* of times the call loaded live or training rows.  confidence holds the   *)
(* float a direct call of _calculate_forecast_confidence returns,          *)
(* generated_at the datetime.now() a successful call stamps its result     *)
(* with (0 when the key is absent), anomaly_rate the rate in thousandths   *)
(* of a percent, model the regressor that predicted ("site" or "global"),  *)
(* features the names of the values passed to it, in order, trend and      *)
(* trend_strength (in thousandths) the two summary keys.                   *)

NoResult ==
    [error |-> None, forecasts |-> <<>>, forecast_days |-> 0, anomalies |-> {},
     total_anomalies |-> 0, active_rentals |-> 0, reads |-> 0, mock |-> FALSE,
     confidence |-> 0, generated_at |-> 0, anomaly_rate |-> 0, model |-> "none",
     features |-> <<>>, trend |-> "", trend_strength |-> 0]

\* a failure that returns the empty result, without a message
Err_empty(msg, reads) == [NoResult EXCEPT !.reads = reads]

\* return {"error": msg}
Err(msg, reads) == [NoResult EXCEPT !.error = msg, !.reads = reads]

\* the first exception the forecast loop (or the summary after it) raises
ForecastFault(self, last, equipment_type, site_id, days_ahead) ==
    IF days_ahead = 0 THEN "division by zero"
    ELSE IF days_ahead < 0 THEN "max() arg is an empty sequence"
    ELSE IF Truthy(equipment_type) /\ equipment_type \notin self.equipment_encoder.classes
        THEN "y contains previously unseen labels"
    ELSE IF Truthy(site_id) /\ site_id \notin self.site_encoder.classes
        THEN "y contains previously unseen labels"
    ELSE IF last = NaT THEN "'datetime.datetime' object has no attribute 'dayofweek'"
    ELSE IF Truthy(site_id) /\ site_id \in DOMAIN self.site_specific_models
            /\ Truthy(equipment_type)
        THEN (IF self.site_specific_models[site_id] = Unfitted
              THEN "'NoneType' object has no attribute 'predict'" ELSE None)
    ELSE IF self.scaler = Unfitted \/ self.demand_forecaster = Unfitted
        THEN "This instance is not fitted yet"
    ELSE None

\* the columns a per-site regressor is fitted on
SiteFeatureColumns ==
    <<"equipment_type_encoded", "month", "day_of_week", "quarter",
      "is_weekend", "seasonal_factor", "demand_7d_avg", "demand_30d_avg">>

\* the list _prepare_forecast_features returns
ForecastFeatures ==
    <<"equipment_type_encoded", "site_encoded", "month", "day_of_week", "quarter",
      "is_weekend", "seasonal_factor", "site_equipment_count", "site_avg_utilization",
      "equipment_site_popularity", "demand_7d_avg", "demand_30d_avg",
      "rental_duration", "utilization_ratio">>

\* what is passed to predict: features[:8] to a per-site regressor, all of
\* them (scaled) to the global one
PredictInput(model) ==
    IF model = "site" THEN SubSeq(ForecastFeatures, 1, 8) ELSE ForecastFeatures

\* which regressor answers: "site" or "global"
ModelUsed(self, equipment_type, site_id) ==
    IF Truthy(site_id) /\ site_id \in DOMAIN self.site_specific_models
       /\ Truthy(equipment_type)
    THEN "site" ELSE "global"

\* _calculate_demand_trend: np.polyfit(x, y, 1) over x = 0 .. n-1 and the
\* demands y (in tenths), and R squared of the fit, which for a line fitted
\* by least squares is Sxy^2 / (Sxx * Syy); [trend, trend_strength]
_calculate_demand_trend(forecasts) ==
    LET n == Len(forecasts)
        I == 1..n
        y == [i \in I |-> forecasts[i].predicted_demand]
        Sx == SumOver([i \in I |-> i - 1], I)
        Sy == SumOver(y, I)
        Sxy == n * SumOver([i \in I |-> (i - 1) * y[i]], I) - Sx * Sy
        Sxx == n * SumOver([i \in I |-> (i - 1) * (i - 1)], I) - Sx * Sx
        Syy == n * SumOver([i \in I |-> y[i] * y[i]], I) - Sy * Sy
        abs == IF Sxy < 0 THEN -Sxy ELSE Sxy
    IN  IF n < 2 THEN [trend |-> "stable", trend_strength |-> 0]
        ELSE IF \A i \in I : y[i] = y[1] THEN [trend |-> "stable", trend_strength |-> 0]
        ELSE [trend |-> IF abs < Sxx THEN "stable"
                        ELSE IF Sxy > 0 THEN "increasing" ELSE "decreasing",
              trend_strength |-> RoundHalfEven(1000 * Sxy * Sxy, Sxx * Syy)]

\* one ForecastPoint; raw is the regressor's prediction, in thousandths
ForecastPoint(t, cells, equipment_type, site_id, future_date, raw) ==
    LET predicted_demand ==
            _apply_realistic_constraints(raw, future_date, t, cells, equipment_type, site_id)
        confidence ==
            _calculate_forecast_confidence(t, cells, equipment_type, site_id, future_date)
    IN  [date |-> FormatDate(future_date),
         day_of_week |-> Weekday(future_date),
         predicted_demand |-> RoundHalfEven(Max(0, predicted_demand), 100),
         confidence |-> RoundHalfEven(confidence, 10000)]

\* forecast_demand without its first two lines
forecast_demand_unguarded(self, db, equipment_type, site_id, days_ahead, raw, now) ==
    LET t == _load_database_data(self, db)
        cells == Matching(equipment_type, site_id)
    IN  IF ~t.readable THEN Err("No data available for forecasting", 1)
        ELSE IF NumRows(t, cells) = 0
            THEN Err("No data found for the specified parameters", 1)
        ELSE
        LET last_date == MaxDate(t, cells)
            fault == ForecastFault(self, last_date, equipment_type, site_id, days_ahead)
        IN  IF fault # None THEN Err(fault, 1)
            ELSE [NoResult EXCEPT
                    !.forecast_days = days_ahead,
                    !.reads = 1,
                    !.generated_at = now,
                    !.forecasts =
                        [i \in 1..days_ahead |->
                            ForecastPoint(t, cells, equipment_type, site_id,
                                          PlusDays(last_date, i), raw[i])]]

\* forecast_demand whose fallback date works: with no valid check-out date
\* the forecast days are counted from now
forecast_demand_nowdates(self, db, equipment_type, site_id, days_ahead, raw, now) ==
    IF ~self.models_trained THEN Err("Models not trained", 0)
    ELSE
    LET t == _load_database_data(self, db)
        cells == Matching(equipment_type, site_id)
    IN  IF ~t.readable THEN Err("No data available for forecasting", 1)
        ELSE IF NumRows(t, cells) = 0
            THEN Err("No data found for the specified parameters", 1)
        ELSE
        LET last == MaxDate(t, cells)
            last_date == IF last = NaT THEN now ELSE last
            fault == ForecastFault(self, last_date, equipment_type, site_id, days_ahead)
        IN  IF fault # None THEN Err(fault, 1)
            ELSE [NoResult EXCEPT
                    !.forecast_days = days_ahead,
                    !.reads = 1,
                    !.generated_at = now,
                    !.forecasts =
                        [i \in 1..days_ahead |->
                            ForecastPoint(t, cells, equipment_type, site_id,
                                          PlusDays(last_date, i), raw[i])]]

\* forecast_demand; raw[i] is what the chosen regressor predicts for day i,
\* now what datetime.now() reads during the call
forecast_demand(self, db, equipment_type, site_id, days_ahead, raw, now) ==
    IF ~self.models_trained THEN Err("Models not trained", 0)
    ELSE
    LET t == _load_database_data(self, db)
        cells == Matching(equipment_type, site_id)
    IN  IF ~t.readable THEN Err("No data available for forecasting", 1)
        ELSE IF NumRows(t, cells) = 0
            THEN Err("No data found for the specified parameters", 1)
        ELSE
        LET last_date == MaxDate(t, cells)
            fault == ForecastFault(self, last_date, equipment_type, site_id, days_ahead)
            forecasts ==
                [i \in 1..days_ahead |->
                    ForecastPoint(t, cells, equipment_type, site_id,
                                  PlusDays(last_date, i), raw[i])]
        IN  IF fault # None THEN Err(fault, 1)
            ELSE [NoResult EXCEPT
                    !.forecast_days = days_ahead,
                    !.reads = 1,
                    !.generated_at = now,
                    !.model = ModelUsed(self, equipment_type, site_id),
                    !.features = PredictInput(ModelUsed(self, equipment_type, site_id)),
                    !.forecasts = forecasts,
                    !.trend = _calculate_demand_trend(forecasts).trend,
                    !.trend_strength = _calculate_demand_trend(forecasts).trend_strength]

\* the equipment ids requests name, and the cell each one's row is in
IdCell(equipment_id) ==
    IF equipment_id = "EQ-E1" THEN <<"Excavator", "S1">>
    ELSE IF equipment_id = "EQ-G1" THEN <<"Grader", "S1">>
    ELSE <<"Grader", UNASSIGNED>>
KnownIds == {"EQ-E1", "EQ-G1", "EQ-GU"}

\* the three rules appended in the opposite order
AnomalyTypes_usagefirst(h) ==
    LET total == h.engine + h.idle
        rule1 == total # 0 /\ 100 * h.engine < 35 * total
        rule2 == h.idle > 60
        rule3 == h.engine = 0 /\ h.idle > 0
    IN  (IF rule3 THEN <<"no_usage">> ELSE <<>>)
        \o (IF rule2 THEN <<"high_idle_time">> ELSE <<>>)
        \o (IF rule1 THEN <<"low_utilization">> ELSE <<>>)

\* the three rules, on a row's hours in tenths; the ratio of 0/0 is nan and
\* is filled with 0.5
AnomalyTypes(h) ==
    LET total == h.engine + h.idle
        rule1 == total # 0 /\ 100 * h.engine < 35 * total
        rule2 == h.idle > 60
        rule3 == h.engine = 0 /\ h.idle > 0
    IN  (IF rule1 THEN <<"low_utilization">> ELSE <<>>)
        \o (IF rule2 THEN <<"high_idle_time">> ELSE <<>>)
        \o (IF rule3 THEN <<"no_usage">> ELSE <<>>)

Severity(h) == IF h.idle > 60 \/ (h.engine = 0 /\ h.idle > 0) THEN "high" ELSE "medium"

\* detect_anomalies with the rate computed as a fraction, not a percentage
detect_anomalies_fraction(self, db, equipment_id) ==
    IF ~self.models_trained THEN Err("Models not trained", 0)
    ELSE
    LET t == _load_database_data(self, db)
        one == Truthy(equipment_id)
        found == equipment_id \in KnownIds /\ t.cnt[IdCell(equipment_id)] > 0
        scanned == IF one THEN {IdCell(equipment_id)} ELSE {c \in Cells : t.cnt[c] > 0}
        rows(c) == IF one THEN 1 ELSE t.cnt[c]
        hit == {c \in scanned : AnomalyTypes(t.hours[c]) # <<>>}
        total_anomalies == SumOver([c \in Cells |-> rows(c)], hit)
        active_rental_count == SumOver([c \in Cells |-> rows(c)], scanned)
    IN  IF ~t.readable \/ NumRows(t, Cells) = 0
            THEN Err("No database data available for anomaly detection", 1)
        ELSE IF one /\ ~found THEN Err("Equipment not found in database", 1)
        ELSE [NoResult EXCEPT
                !.reads = 1,
                !.anomalies =
                    {[cell |-> c, rows |-> rows(c),
                      alert_type |-> Head(AnomalyTypes(t.hours[c])),
                      severity |-> Severity(t.hours[c])] : c \in hit},
                !.total_anomalies = total_anomalies,
                !.active_rentals = active_rental_count,
                !.anomaly_rate = IF active_rental_count > 0
                                 THEN (total_anomalies * 1000) \div active_rental_count
                                 ELSE 0]

\* detect_anomalies; the anomalies are kept per cell with the number of rows
detect_anomalies(self, db, equipment_id) ==
    IF ~self.models_trained THEN Err("Models not trained", 0)
    ELSE
    LET t == _load_database_data(self, db)
        one == Truthy(equipment_id)
        found == equipment_id \in KnownIds /\ t.cnt[IdCell(equipment_id)] > 0
        scanned == IF one THEN {IdCell(equipment_id)} ELSE {c \in Cells : t.cnt[c] > 0}
        rows(c) == IF one THEN 1 ELSE t.cnt[c]
        hit == {c \in scanned : AnomalyTypes(t.hours[c]) # <<>>}
        total_anomalies == SumOver([c \in Cells |-> rows(c)], hit)
        active_rental_count == SumOver([c \in Cells |-> rows(c)], scanned)
    IN  IF ~t.readable \/ NumRows(t, Cells) = 0
            THEN Err("No database data available for anomaly detection", 1)
        ELSE IF one /\ ~found THEN Err("Equipment not found in database", 1)
        ELSE [NoResult EXCEPT
                !.reads = 1,
                !.anomalies =
                    {[cell |-> c, rows |-> rows(c),
                      alert_type |-> Head(AnomalyTypes(t.hours[c])),
                      severity |-> Severity(t.hours[c])] : c \in hit},
                !.total_anomalies = total_anomalies,
                !.active_rentals = active_rental_count,
                !.anomaly_rate = IF active_rental_count > 0
                                 THEN (total_anomalies * 100000) \div active_rental_count
                                 ELSE 0]

----------------------------------------------------------------------------
(* The request handlers of fastapi_ml_service.py *)

NoResponse ==
    [op |-> "none", status |-> 0, detail |-> None, models_trained |-> FALSE,
     body |-> NoResult]

Reply(op, status, detail) ==
    [NoResponse EXCEPT !.op = op, !.status = status, !.detail = detail]

Idle == [op |-> "none", pc |-> "idle", self |-> 0, checked |-> 0,
         request |-> [equipment_type |-> None, site_id |-> None, days_ahead |-> 1,
                      has_horizon |-> FALSE, horizon_days |-> 0, equipment_id |-> None]]

\* days = request.horizon_days if request.horizon_days is not None else request.days_ahead
DaysOf(request) ==
    IF request.has_horizon THEN request.horizon_days ELSE request.days_ahead

\* equipment_factor, in tenths
EquipmentFactor(equipment_type) ==
    CASE equipment_type = "Excavator" -> 18
      [] equipment_type = "Bulldozer" -> 9
      [] equipment_type = "Crane" -> 15
      [] equipment_type = "Grader" -> 7
      [] equipment_type = "Loader" -> 12
      [] OTHER -> 10

\* trend_options[0]
TrendOption(equipment_type) ==
    CASE equipment_type \in {"Excavator", "Crane"} -> "increasing"
      [] equipment_type = "Grader" -> "decreasing"
      [] OTHER -> "stable"

\* trend_options[1], in thousandths
TrendStrengthOption(equipment_type) ==
    CASE equipment_type \in {"Excavator", "Crane"} -> 130
      [] equipment_type = "Grader" -> 90
      [] equipment_type = "Loader" -> 20
      [] OTHER -> 50

\* trend_factor for the i-th point (i from 0), in thousandths
TrendFactor(equipment_type, i) ==
    CASE TrendOption(equipment_type) = "increasing" -> 1000 + i * 20
      [] TrendOption(equipment_type) = "decreasing" -> 1000 - i * 10
      [] OTHER -> 1000 + ((i % 7) - 3) * 5

\* the handler's rewrite of one point: predicted_demand in tenths
EnhancePoint(day, equipment_type, i) ==
    LET weekend_factor == IF day.day_of_week \in {5, 6} THEN 6 ELSE 10
        new_demand ==
            RoundHalfEven(day.predicted_demand * EquipmentFactor(equipment_type)
                            * TrendFactor(equipment_type, i) * weekend_factor,
                          100000)
    IN  [day EXCEPT !.predicted_demand = Max(5, new_demand)]

\* "Enhance data variation based on equipment type"
EnhanceForecast(forecast, equipment_type) ==
    IF Truthy(equipment_type) /\ forecast.forecasts # <<>>
    THEN [forecast EXCEPT
            !.forecasts = [i \in DOMAIN forecast.forecasts |->
                              EnhancePoint(forecast.forecasts[i], equipment_type, i - 1)],
            !.trend = TrendOption(equipment_type),
            !.trend_strength = TrendStrengthOption(equipment_type)]
    ELSE forecast

\* demand_forecast from the call of forecast_demand on
demand_forecast(self, db, request, raw, now) ==
    LET forecast == forecast_demand(self, db, request.equipment_type, request.site_id,
                                    DaysOf(request), raw, now)
        enhanced == EnhanceForecast(forecast, request.equipment_type)
    IN  IF enhanced.error # None
        THEN Reply("demand_forecast", 400, enhanced.error)
        ELSE [Reply("demand_forecast", 200, None) EXCEPT !.body = enhanced]

\* the mock_anomalies dict
MockAnomalies ==
    [NoResult EXCEPT
        !.mock = TRUE,
        !.total_anomalies = 3,
        !.anomalies = {[cell |-> <<"Excavator", "S1">>, rows |-> 1,
                        alert_type |-> "high_idle_time", severity |-> "high"]}]

\* anomaly_detection from the call of detect_anomalies on
anomaly_detection(self, db, request) ==
    LET anomalies == detect_anomalies(self, db, request.equipment_id)
    IN  IF anomalies.error # None
        THEN Reply("anomaly_detection", 400, anomalies.error)
        ELSE [Reply("anomaly_detection", 200, None) EXCEPT !.body = anomalies]

----------------------------------------------------------------------------
(* The watcher: DatabaseChangeHandler *)

\* a path is the sequence of its parts; the last part is what endswith tests
RentalDb == <<"app", "rental.db">>
DevDb == <<"app", "dev.db">>
Journal == <<"app", "rental.db", "-journal">>
SrcPaths == {RentalDb, DevDb, Journal}

\* the events watchdog hands to on_modified
FileEvents == [src_path : SrcPaths, is_directory : BOOLEAN]

\* str.endswith(suffixes)
EndsWith(path, suffixes) == path[Len(path)] \in suffixes

\* file_path not in self.last_modified
NotSeen == -1

\* self.debounce_time = 3
debounce_time == 3

\* DatabaseChangeHandler.__init__(callback=restart_callback)
DatabaseChangeHandler ==
    [callback |-> TRUE,
     last_modified |-> [p \in SrcPaths |-> NotSeen],
     debounce_time |-> debounce_time]

\* on_modified where a dropped event refreshes the file's time
on_modified_refresh(self, event, current_time) ==
    LET file_path == event.src_path IN
    IF event.is_directory
    THEN [self |-> self, started |-> FALSE]
    ELSE IF ~EndsWith(event.src_path, {"rental.db", "dev.db"})
    THEN [self |-> self, started |-> FALSE]
    ELSE IF /\ self.last_modified[file_path] # NotSeen
            /\ current_time - self.last_modified[file_path] < self.debounce_time
    THEN [self |-> [self EXCEPT !.last_modified[file_path] = current_time],
          started |-> FALSE]
    ELSE [self |-> [self EXCEPT !.last_modified[file_path] = current_time],
          started |-> self.callback]

\* on_modified: the handler afterwards, and whether a thread was started
on_modified(self, event, current_time) ==
    LET file_path == event.src_path IN
    IF event.is_directory
    THEN [self |-> self, started |-> FALSE]
    ELSE IF ~EndsWith(event.src_path, {"rental.db", "dev.db"})
    THEN [self |-> self, started |-> FALSE]
    ELSE IF /\ self.last_modified[file_path] # NotSeen
            /\ current_time - self.last_modified[file_path] < self.debounce_time
    THEN [self |-> self, started |-> FALSE]
    ELSE [self |-> [self EXCEPT !.last_modified[file_path] = current_time],
          started |-> self.callback]

\* the watcher before its first event
NoWatch == [event_handler |-> DatabaseChangeHandler, time |-> 0, events |-> <<>>]

\* a second passes
Tick ==
    /\ watch.time < MaxTime
    /\ watch' = [watch EXCEPT !.time = @ + 1]
    /\ UNCHANGED <<metrics, predicts, ml_system, restart_flag, last_database_change, reload_lock,
                   is_reloading, heap, csv, saved, pc, clock, handler, response,
                   live, call, result>>

\* the observer hands an event to on_modified
OnModified(event) ==
    /\ Len(watch.events) < MaxEvents
    /\ LET r == on_modified(watch.event_handler, event, watch.time) IN
        watch' = [watch EXCEPT
                    !.event_handler = r.self,
                    !.events = Append(@, [event |-> event, time |-> watch.time,
                                          started |-> r.started])]
    /\ UNCHANGED <<metrics, predicts, ml_system, restart_flag, last_database_change, reload_lock,
                   is_reloading, heap, csv, saved, pc, clock, handler, response,
                   live, call, result>>

----------------------------------------------------------------------------
(* The service: on_database_change threads *)

\* rental.db as the service specification sees it: the file is missing
NoLive ==
    [available |-> FALSE, cnt |-> MkCnt(0, 0, 0, 0, 0, 0), last |-> NoDates,
     hours |-> Hours(0, 0)]

\* the data file is rewritten
DataChange ==
    /\ csv' \in Contents \ {csv}
    /\ UNCHANGED <<watch, metrics, predicts, ml_system, restart_flag, last_database_change, reload_lock,
                   is_reloading, heap, saved, pc, clock, handler, response, live, call, result>>

\* DatabaseChangeHandler.on_modified starts the callback on a new thread
Trigger(t) ==
    /\ pc[t] = "idle"
    /\ pc' = [pc EXCEPT ![t] = "start"]
    /\ clock' = clock + 1
    /\ UNCHANGED <<watch, metrics, predicts, ml_system, restart_flag, last_database_change, reload_lock,
                   is_reloading, heap, csv, saved, handler, response,
                   live, call, result>>

\* with reload_lock: (enter)
Acquire(t) ==
    /\ pc[t] = "start"
    /\ reload_lock = 0
    /\ reload_lock' = t
    /\ pc' = [pc EXCEPT ![t] = "locked"]
    /\ UNCHANGED <<watch, metrics, predicts, ml_system, restart_flag, last_database_change, is_reloading,
                   heap, csv, saved, clock, handler, response,
                   live, call, result>>

\* on_database_change without the "if is_reloading: return"
CheckReloading_noskip(t) ==
    /\ pc[t] = "locked"
    /\ reload_lock = t
    /\ reload_lock' = 0
    /\ pc' = [pc EXCEPT ![t] = "try"]
    /\ is_reloading' = TRUE
    /\ UNCHANGED <<watch, metrics, predicts, ml_system, restart_flag, last_database_change, heap, csv,
                   saved, clock, handler, response, live, call, result>>

\* if is_reloading: return, else is_reloading = True; the lock is released
CheckReloading(t) ==
    /\ pc[t] = "locked"
    /\ reload_lock = t
    /\ reload_lock' = 0
    /\ IF is_reloading
       THEN /\ pc' = [pc EXCEPT ![t] = "skipped"]
            /\ UNCHANGED is_reloading
       ELSE /\ pc' = [pc EXCEPT ![t] = "try"]
            /\ is_reloading' = TRUE
    /\ UNCHANGED <<watch, metrics, predicts, ml_system, restart_flag, last_database_change, heap, csv,
                   saved, clock, handler, response, live, call, result>>

\* last_database_change = current_time; restart_flag = True
BeginReload(t) ==
    /\ pc[t] = "try"
    /\ last_database_change' = clock
    /\ restart_flag' = TRUE
    /\ pc' = [pc EXCEPT ![t] = "construct"]
    /\ UNCHANGED <<watch, metrics, predicts, ml_system, reload_lock, is_reloading, heap, csv, saved, clock,
                   handler, response, live, call, result>>

\* an instance nothing refers to any more is collected
Collect(h, serving, held) ==
    [i \in InstIds |-> IF i = serving \/ i = held THEN h[i] ELSE Fresh]

\* ml_system = SmartMLSystem(); restart_flag = False, or the except branch
Construct(t) ==
    /\ pc[t] = "construct"
    /\ \E failAt \in FailPoints :
        LET new == SmartMLSystem(csv, saved, failAt) IN
        /\ IF new.raised
           THEN UNCHANGED <<ml_system, heap>>
           ELSE /\ heap' = Collect([heap EXCEPT ![InstOfThread(t)] = new.self],
                                    InstOfThread(t), handler.self)
                /\ ml_system' = InstOfThread(t)
    /\ restart_flag' = FALSE
    /\ pc' = [pc EXCEPT ![t] = "finally"]
    /\ UNCHANGED <<watch, metrics, predicts, last_database_change, reload_lock, is_reloading, csv, saved,
                   clock, handler, response, live, call, result>>

\* on_database_change without the finally clause
Finally_noclear(t) ==
    /\ pc[t] = "finally"
    /\ pc' = [pc EXCEPT ![t] = "done"]
    /\ UNCHANGED <<watch, metrics, predicts, ml_system, restart_flag, last_database_change, reload_lock,
                   is_reloading, heap, csv, saved, clock, handler, response,
                   live, call, result>>

\* finally: is_reloading = False
Finally(t) ==
    /\ pc[t] = "finally"
    /\ is_reloading' = FALSE
    /\ pc' = [pc EXCEPT ![t] = "done"]
    /\ UNCHANGED <<watch, metrics, predicts, ml_system, restart_flag, last_database_change, reload_lock,
                   heap, csv, saved, clock, handler, response,
                   live, call, result>>

----------------------------------------------------------------------------
(* The service: the handlers, one at a time on the event loop *)

Finish(r) ==
    /\ response' = r
    /\ handler' = Idle

\* no engine call was made yet
NoCall == [fn |-> "none", request |-> Idle.request, repeat |-> FALSE]

\* the record of an engine call; repeat tells that the call before it was
\* the same function with the same arguments
Call(fn, rq) ==
    [fn |-> fn, request |-> rq, repeat |-> (call.fn = fn /\ call.request = rq)]

\* what datetime.now() can read during a call, as timestamps
Times == {20, 23}

\* get_ml_status
StatusReq ==
    /\ handler.pc = "idle"
    /\ Finish(IF ml_system = 0
              THEN Reply("get_ml_status", 503, "ML system is not initialized")
              ELSE [Reply("get_ml_status", 200, None) EXCEPT
                        !.models_trained = heap[ml_system].models_trained])
    /\ UNCHANGED <<watch, metrics, predicts, ml_system, restart_flag, last_database_change, reload_lock,
                   is_reloading, heap, csv, saved, pc, clock,
                   live, call, result>>

\* save_models handler
SaveReq ==
    /\ handler.pc = "idle"
    /\ IF ml_system = 0
       THEN /\ Finish(Reply("save_models", 503, "ML system is not initialized"))
            /\ UNCHANGED saved
       ELSE /\ Finish(Reply("save_models", 200, None))
            /\ saved' = save_models(heap[ml_system], saved)
    /\ UNCHANGED <<watch, metrics, predicts, ml_system, restart_flag, last_database_change, reload_lock,
                   is_reloading, heap, csv, pc, clock, live, call, result>>

\* demand_forecast: the two guards, then ml_system.forecast_demand(...) and
\* what follows; no step of another thread is taken in between
ForecastReq(Requests) ==
    /\ handler.pc = "idle"
    /\ \E rq \in Requests, now \in Times :
        IF ml_system = 0
        THEN /\ Finish(Reply("demand_forecast", 503, "ML system is not initialized"))
             /\ UNCHANGED <<call, result>>
        ELSE IF ~heap[ml_system].models_trained
        THEN /\ Finish(Reply("demand_forecast", 503, "ML models are not trained"))
             /\ UNCHANGED <<call, result>>
        ELSE /\ Finish(demand_forecast(heap[ml_system], live, rq, predicts, now))
             /\ result' = forecast_demand(heap[ml_system], live, rq.equipment_type,
                                          rq.site_id, DaysOf(rq), predicts, now)
             /\ call' = Call("forecast_demand", rq)
    /\ UNCHANGED <<watch, metrics, predicts, ml_system, restart_flag, last_database_change, reload_lock,
                   is_reloading, heap, csv, saved, pc, clock, live>>

\* anomaly_detection: the guard that answers with mock data, then
\* ml_system.detect_anomalies(...) and what follows
AnomalyReq(Requests) ==
    /\ handler.pc = "idle"
    /\ \E rq \in Requests :
        IF ml_system = 0 \/ ~heap[IF ml_system = 0 THEN 1 ELSE ml_system].models_trained
        THEN /\ Finish([Reply("anomaly_detection", 200, None) EXCEPT !.body = MockAnomalies])
             /\ UNCHANGED <<call, result>>
        ELSE /\ Finish(anomaly_detection(heap[ml_system], live, rq))
             /\ result' = detect_anomalies(heap[ml_system], live, rq.equipment_id)
             /\ call' = Call("detect_anomalies", rq)
    /\ UNCHANGED <<watch, metrics, predicts, ml_system, restart_flag, last_database_change, reload_lock,
                   is_reloading, heap, csv, saved, pc, clock, live>>

\* retrain_models: the guard, then ml_system._train_models() is entered
RetrainBegin ==
    /\ handler.pc = "idle"
    /\ IF ml_system = 0
       THEN Finish(Reply("retrain_models", 503, "ML system is not initialized"))
       ELSE /\ handler' = [Idle EXCEPT !.op = "retrain_models", !.pc = "training",
                                       !.self = ml_system]
            /\ UNCHANGED response
    /\ UNCHANGED <<watch, metrics, predicts, ml_system, restart_flag, last_database_change, reload_lock,
                   is_reloading, heap, csv, saved, pc, clock,
                   live, call, result>>

\* retrain_models: _train_models runs on the instance, in place
RetrainTrain ==
    /\ handler.op = "retrain_models" /\ handler.pc = "training"
    /\ \E failAt \in FailPoints :
        /\ heap' = [heap EXCEPT ![handler.self] = _train_models(heap[handler.self], failAt)]
    /\ handler' = [handler EXCEPT !.pc = "check"]
    /\ UNCHANGED <<watch, metrics, predicts, ml_system, restart_flag, last_database_change, reload_lock,
                   is_reloading, csv, saved, pc, clock, response, live, call, result>>

\* retrain_models: if not ml_system.models_trained: 500, else the message
RetrainCheck ==
    /\ handler.op = "retrain_models" /\ handler.pc = "check"
    /\ Finish(IF ~heap[ml_system].models_trained
              THEN Reply("retrain_models", 500, "Failed to train models")
              ELSE [Reply("retrain_models", 200, None) EXCEPT !.models_trained = TRUE])
    /\ heap' = Collect(heap, ml_system, 0)
    /\ UNCHANGED <<watch, metrics, predicts, ml_system, restart_flag, last_database_change, reload_lock,
                   is_reloading, csv, saved, pc, clock,
                   live, call, result>>

----------------------------------------------------------------------------
(* The service specification *)

\* the module is imported: ml_system = SmartMLSystem() in a try block
Init ==
    /\ csv \in Contents
    /\ saved = NoSaved
    /\ \E failAt \in FailPoints :
        LET new == SmartMLSystem(csv, saved, failAt) IN
        /\ heap = [i \in InstIds |-> IF i = 1 /\ ~new.raised THEN new.self ELSE Fresh]
        /\ ml_system = IF new.raised THEN 0 ELSE 1
    /\ restart_flag = FALSE
    /\ last_database_change = 0
    /\ reload_lock = 0
    /\ is_reloading = FALSE
    /\ pc = [t \in Threads |-> "idle"]
    /\ clock = 0
    /\ handler = Idle
    /\ response = NoResponse
    /\ live = NoLive
    /\ call = NoCall
    /\ result = NoResult
    /\ predicts = [i \in 1..MaxDays |-> 1200]
    /\ metrics = NoMetrics
    /\ watch = NoWatch

Next ==
    \/ DataChange
    \/ \E t \in Threads : Trigger(t)
    \/ \E t \in Threads : Acquire(t)
    \/ \E t \in Threads : CheckReloading(t)
    \/ \E t \in Threads : BeginReload(t)
    \/ \E t \in Threads : Construct(t)
    \/ \E t \in Threads : Finally(t)
    \/ SaveReq
    \/ RetrainBegin
    \/ RetrainTrain
    \/ RetrainCheck

Spec == Init /\ [][Next]_vars

\* a step of the on_database_change thread t
ThreadStep(t) ==
    \/ Acquire(t)
    \/ CheckReloading(t)
    \/ BeginReload(t)
    \/ Construct(t)
    \/ Finally(t)

\* the watcher and its threads alone
NextReload ==
    \/ DataChange
    \/ \E t \in Threads : Trigger(t)
    \/ \E t \in Threads : Acquire(t)
    \/ \E t \in Threads : CheckReloading(t)
    \/ \E t \in Threads : BeginReload(t)
    \/ \E t \in Threads : Construct(t)
    \/ \E t \in Threads : Finally(t)

\* The reload threads under fair scheduling: a started thread keeps being
\* scheduled, the lock is held for the test of is_reloading only, and
\* SmartMLSystem() returns or raises.  Nothing obliges the watcher to report
\* a change.
SpecReload ==
    Init /\ [][NextReload]_vars /\ \A t \in Threads : WF_vars(ThreadStep(t))

----------------------------------------------------------------------------
(* The engine specification: one constructed instance, one live snapshot  *)

\* data.csv as the engine specification finds it at construction
EngineContents ==
    Contents \cup
    { Dataset(4, MkCnt(60, 0, 0, 0, 0, 0), 0, ZeroSites, SomeDates) }  \* one type, one site

\* Equipment tables of rental.db: the active rentals
Live(cnt, last, hours) == [available |-> TRUE, cnt |-> cnt, last |-> last, hours |-> hours]

\* Grader rows idle more than six hours a day
IdleGraders ==
    [c \in Cells |-> IF c[1] = "Grader" THEN [engine |-> 10, idle |-> 70]
                                         ELSE [engine |-> 60, idle |-> 20]]

\* the Excavators were last checked out on Saturday 2024-11-30
LateDates == [c \in Cells |-> IF c[1] = "Excavator" THEN 556 ELSE 4]

Lives ==
    { NoLive,
      Live(MkCnt(1, 0, 0, 0, 0, 2), SomeDates, IdleGraders),
      Live(MkCnt(3, 0, 0, 0, 2, 0),
           [c \in Cells |-> IF c[1] = "Excavator" THEN NaT ELSE 5], Hours(60, 20)),
      Live(MkCnt(60, 25, 0, 12, 0, 8), LateDates, Hours(0, 30)) }

ForecastRequests ==
    { [Idle.request EXCEPT !.equipment_type = ty, !.site_id = s, !.days_ahead = d]
        : ty \in {None} \cup Types, s \in {None} \cup DataSites, d \in 1..MaxDays }
    \cup
    { [Idle.request EXCEPT !.has_horizon = TRUE, !.horizon_days = hd] : hd \in {-1, 0} }

\* the scripts call forecast_demand without a site_id
ScriptRequests == {rq \in ForecastRequests : rq.site_id = None}

AnomalyRequests ==
    { [Idle.request EXCEPT !.equipment_id = e] : e \in {None, "EQ-E1", "EQ-GU"} }

\* what the regressor predicts, in thousandths, the same for every day
RawValues == {-500, 1200, 30000}
Raws == { [i \in 1..MaxDays |-> v] : v \in RawValues }

\* a script calls forecast_demand on the instance it constructed
EngineForecast ==
    /\ handler.pc = "idle"
    /\ ml_system # 0
    /\ \E rq \in ScriptRequests, now \in Times :
        /\ call' = Call("forecast_demand", rq)
        /\ result' = forecast_demand(heap[ml_system], live, rq.equipment_type,
                                     rq.site_id, DaysOf(rq), predicts, now)
    /\ response' = NoResponse
    /\ UNCHANGED <<watch, metrics, predicts, ml_system, restart_flag, last_database_change, reload_lock,
                   is_reloading, heap, csv, saved, pc, clock, handler, live>>

\* a script calls detect_anomalies on the instance it constructed
EngineAnomalies ==
    /\ handler.pc = "idle"
    /\ ml_system # 0
    /\ \E rq \in AnomalyRequests :
        /\ call' = Call("detect_anomalies", rq)
        /\ result' = detect_anomalies(heap[ml_system], live, rq.equipment_id)
    /\ response' = NoResponse
    /\ UNCHANGED <<watch, metrics, predicts, ml_system, restart_flag, last_database_change, reload_lock,
                   is_reloading, heap, csv, saved, pc, clock, handler, live>>

\* the dates _calculate_forecast_confidence is asked about: before the last
\* check-out, a few days after it, and months after it
FutureDates == {1, 12, 130}

\* _calculate_forecast_confidence is called on the context rows of a request
EngineConfidence ==
    /\ handler.pc = "idle"
    /\ ml_system # 0
    /\ \E rq \in {r \in ForecastRequests : DaysOf(r) = 1}, future_date \in FutureDates :
        /\ call' = Call("_calculate_forecast_confidence", rq)
        /\ result' = [NoResult EXCEPT !.confidence =
                        _calculate_forecast_confidence(
                            _load_database_data(heap[ml_system], live),
                            Matching(rq.equipment_type, rq.site_id),
                            rq.equipment_type, rq.site_id, future_date)]
    /\ response' = NoResponse
    /\ UNCHANGED <<watch, metrics, predicts, ml_system, restart_flag, last_database_change, reload_lock,
                   is_reloading, heap, csv, saved, pc, clock, handler, live>>

InitEngine ==
    /\ csv \in EngineContents
    /\ saved = NoSaved
    /\ \E failAt \in FailPoints :
        LET new == SmartMLSystem(csv, saved, failAt) IN
        /\ heap = [i \in InstIds |-> IF i = 1 /\ ~new.raised THEN new.self ELSE Fresh]
        /\ ml_system = IF new.raised THEN 0 ELSE 1
    /\ restart_flag = FALSE
    /\ last_database_change = 0
    /\ reload_lock = 0
    /\ is_reloading = FALSE
    /\ pc = [t \in Threads |-> "idle"]
    /\ clock = 0
    /\ handler = Idle
    /\ response = NoResponse
    /\ live \in Lives
    /\ call = NoCall
    /\ result = NoResult
    /\ predicts \in IF ml_system # 0 /\ heap[1].models_trained
                    THEN Raws ELSE {[i \in 1..MaxDays |-> 0]}
    /\ metrics = NoMetrics
    /\ watch = NoWatch

NextEngine ==
    \/ EngineForecast
    \/ EngineAnomalies
    \/ EngineConfidence
    \/ ForecastReq(ForecastRequests)

SpecEngine == InitEngine /\ [][NextEngine]_vars

----------------------------------------------------------------------------
(* The anomaly specification: detect_anomalies and the handlers that do    *)
(* not forecast, on one constructed instance and one live snapshot         *)

\* three rentals: no engine hours and five idle; eight idle hours; a
\* utilization of 0.2 with two idle hours
ScenarioLive ==
    Live(MkCnt(1, 0, 0, 1, 0, 1), SomeDates,
         [c \in Cells |->
            CASE c = <<"Excavator", "S1">> -> [engine |-> 0, idle |-> 50]
              [] c = <<"Grader", "S1">> -> [engine |-> 60, idle |-> 80]
              [] c = <<"Grader", UNASSIGNED>> -> [engine |-> 5, idle |-> 20]
              [] OTHER -> [engine |-> 60, idle |-> 20]])

\* rentals of every kind: no rule matches, each rule alone where it can,
\* several at once, and rows that report no hours at all
MixedLive ==
    Live(MkCnt(3, 2, 1, 2, 1, 4), SomeDates,
         [c \in Cells |->
            CASE c = <<"Excavator", "S1">> -> [engine |-> 60, idle |-> 20]
              [] c = <<"Excavator", "S2">> -> [engine |-> 60, idle |-> 80]
              [] c = <<"Excavator", UNASSIGNED>> -> [engine |-> 10, idle |-> 70]
              [] c = <<"Grader", "S1">> -> [engine |-> 0, idle |-> 0]
              [] c = <<"Grader", "S2">> -> [engine |-> 0, idle |-> 70]
              [] c = <<"Grader", UNASSIGNED>> -> [engine |-> 5, idle |-> 20]])

\* the Equipment table with no active rental
EmptyLive == Live(MkCnt(0, 0, 0, 0, 0, 0), NoDates, Hours(0, 0))

AnomalyLives == {NoLive, EmptyLive, ScenarioLive, MixedLive}

\* the regressors' predictions play no part here
InitAnomaly ==
    /\ csv \in EngineContents
    /\ saved = NoSaved
    /\ \E failAt \in FailPoints :
        LET new == SmartMLSystem(csv, saved, failAt) IN
        /\ heap = [i \in InstIds |-> IF i = 1 /\ ~new.raised THEN new.self ELSE Fresh]
        /\ ml_system = IF new.raised THEN 0 ELSE 1
    /\ restart_flag = FALSE
    /\ last_database_change = 0
    /\ reload_lock = 0
    /\ is_reloading = FALSE
    /\ pc = [t \in Threads |-> "idle"]
    /\ clock = 0
    /\ handler = Idle
    /\ response = NoResponse
    /\ live \in AnomalyLives
    /\ call = NoCall
    /\ result = NoResult
    /\ predicts = [i \in 1..MaxDays |-> 0]
    /\ metrics = NoMetrics
    /\ watch = NoWatch

NextAnomaly ==
    \/ EngineAnomalies
    \/ StatusReq
    \/ AnomalyReq(AnomalyRequests)

SpecAnomaly == InitAnomaly /\ [][NextAnomaly]_vars

----------------------------------------------------------------------------
(* SpecServe: the inference handlers step by step on the event loop, each  *)
(* read of the global ml_system a step of its own, while the reload        *)
(* threads and the retrain handler run.                                    *)

InferenceOps == {"demand_forecast", "anomaly_detection"}

\* what the handler answers when its guard fails
Refusal(op, detail) ==
    IF op = "demand_forecast" THEN Reply(op, 503, detail)
    ELSE [Reply(op, 200, None) EXCEPT !.body = MockAnomalies]

\* if ml_system is None
ServeNone(op) ==
    /\ handler.pc = "idle"
    /\ IF ml_system = 0
       THEN Finish(Refusal(op, "ML system is not initialized"))
       ELSE /\ handler' = [Idle EXCEPT !.op = op, !.pc = "trained"]
            /\ UNCHANGED response
    /\ UNCHANGED <<watch, metrics, predicts, ml_system, restart_flag, last_database_change, reload_lock,
                   is_reloading, heap, csv, saved, pc, clock, live, call, result>>

\* not ml_system.models_trained: the global is read again
ServeTrained(op) ==
    /\ handler.op = op /\ handler.pc = "trained"
    /\ IF ~heap[ml_system].models_trained
       THEN Finish(Refusal(op, "ML models are not trained"))
       ELSE /\ handler' = [handler EXCEPT !.pc = "enter", !.checked = ml_system]
            /\ UNCHANGED response
    /\ UNCHANGED <<watch, metrics, predicts, ml_system, restart_flag, last_database_change, reload_lock,
                   is_reloading, heap, csv, saved, pc, clock, live, call, result>>

\* ml_system.forecast_demand(...) / ml_system.detect_anomalies(...): the
\* global is read once more and the method runs on that instance
ServeEnter(op) ==
    /\ handler.op = op /\ handler.pc = "enter"
    /\ handler' = [handler EXCEPT !.pc = "running", !.self = ml_system]
    /\ UNCHANGED <<watch, metrics, predicts, ml_system, restart_flag, last_database_change, reload_lock,
                   is_reloading, heap, csv, saved, pc, clock, response, live, call, result>>

\* the method returns and the handler answers
ServeReturn(op) ==
    /\ handler.op = op /\ handler.pc = "running"
    /\ Finish(IF op = "demand_forecast"
              THEN demand_forecast(heap[handler.self], live, handler.request, predicts, 20)
              ELSE anomaly_detection(heap[handler.self], live, handler.request))
    /\ heap' = Collect(heap, ml_system, 0)
    /\ UNCHANGED <<watch, metrics, predicts, ml_system, restart_flag, last_database_change, reload_lock,
                   is_reloading, csv, saved, pc, clock, live, call, result>>

NextServe ==
    \/ DataChange
    \/ \E t \in Threads : Trigger(t)
    \/ \E t \in Threads : Acquire(t)
    \/ \E t \in Threads : CheckReloading(t)
    \/ \E t \in Threads : BeginReload(t)
    \/ \E t \in Threads : Construct(t)
    \/ \E t \in Threads : Finally(t)
    \/ \E op \in InferenceOps : ServeNone(op)
    \/ \E op \in InferenceOps : ServeTrained(op)
    \/ \E op \in InferenceOps : ServeEnter(op)
    \/ \E op \in InferenceOps : ServeReturn(op)
    \/ RetrainBegin
    \/ RetrainTrain
    \/ RetrainCheck

SpecServe == Init /\ [][NextServe]_vars

----------------------------------------------------------------------------
(* SpecFeatures: one row of hours goes through the training preprocessing, *)
(* the live snapshot processing and the anomaly scan.                      *)

\* hours per day, in tenths
HourValues == {0, 5, 20, 60, 80, 240}

\* _preprocess_data derives the row's columns
PreprocessRow ==
    /\ ~metrics.training.computed
    /\ metrics' = [metrics EXCEPT !.training = TrainingFeatures(metrics.row)]
    /\ UNCHANGED <<watch, predicts, ml_system, restart_flag, last_database_change, reload_lock,
                   is_reloading, heap, csv, saved, pc, clock, handler, response,
                   live, call, result>>

\* _add_calculated_columns_to_db_data derives the row's columns
AddCalculatedColumnsRow ==
    /\ ~metrics.live.computed
    /\ metrics' = [metrics EXCEPT !.live = LiveFeatures(metrics.row)]
    /\ UNCHANGED <<watch, predicts, ml_system, restart_flag, last_database_change, reload_lock,
                   is_reloading, heap, csv, saved, pc, clock, handler, response,
                   live, call, result>>

\* detect_anomalies derives the row's columns
DetectAnomaliesRow ==
    /\ ~metrics.scan.computed
    /\ metrics' = [metrics EXCEPT !.scan = ScanFeatures(metrics.row)]
    /\ UNCHANGED <<watch, predicts, ml_system, restart_flag, last_database_change, reload_lock,
                   is_reloading, heap, csv, saved, pc, clock, handler, response,
                   live, call, result>>

InitFeatures ==
    /\ csv = NoData
    /\ saved = NoSaved
    /\ heap = [i \in InstIds |-> Fresh]
    /\ ml_system = 0
    /\ restart_flag = FALSE
    /\ last_database_change = 0
    /\ reload_lock = 0
    /\ is_reloading = FALSE
    /\ pc = [t \in Threads |-> "idle"]
    /\ clock = 0
    /\ handler = Idle
    /\ response = NoResponse
    /\ live = NoLive
    /\ call = NoCall
    /\ result = NoResult
    /\ predicts = [i \in 1..MaxDays |-> 0]
    /\ \E e \in HourValues, i \in HourValues :
        metrics = [NoMetrics EXCEPT !.row = [engine |-> e, idle |-> i]]
    /\ watch = NoWatch

NextFeatures ==
    \/ PreprocessRow
    \/ AddCalculatedColumnsRow
    \/ DetectAnomaliesRow

SpecFeatures == InitFeatures /\ [][NextFeatures]_vars

----------------------------------------------------------------------------
(* The watcher specification *)

\* DatabaseWatcher.start_watching has scheduled the handler
InitWatch ==
    /\ csv = NoData
    /\ saved = NoSaved
    /\ heap = [i \in InstIds |-> Fresh]
    /\ ml_system = 0
    /\ restart_flag = FALSE
    /\ last_database_change = 0
    /\ reload_lock = 0
    /\ is_reloading = FALSE
    /\ pc = [t \in Threads |-> "idle"]
    /\ clock = 0
    /\ handler = Idle
    /\ response = NoResponse
    /\ live = NoLive
    /\ call = NoCall
    /\ result = NoResult
    /\ predicts = [i \in 1..MaxDays |-> 0]
    /\ metrics = NoMetrics
    /\ watch = NoWatch

NextWatch ==
    \/ Tick
    \/ \E event \in FileEvents : OnModified(event)

SpecWatch == InitWatch /\ [][NextWatch]_vars

----------------------------------------------------------------------------
(* Properties of the service specification *)

\* the ModelBank requests are answered from; the bank of a never fitted
\* instance when ml_system is None
ServingBank == IF ml_system = 0 THEN BankOf(Fresh) ELSE BankOf(heap[ml_system])

\* the in-place retrain of the handler ends with the trained flag down
InPlaceFailed ==
    /\ handler.pc = "training"
    /\ handler'.pc = "check"
    /\ ~heap'[handler.self].models_trained

\* the reload of thread t ends: the constructor raised, or it swallowed a
\* failed fit and returned an untrained instance
ReloadFailed(t) ==
    /\ pc[t] = "construct"
    /\ pc'[t] = "finally"
    /\ \/ ml_system' = ml_system
       \/ ~heap'[ml_system'].models_trained

\* C1: a retrain that fails or raises partway, in place through the handler or
\* in the reload of on_database_change, leaves the serving ModelBank (models,
\* scaler, encoders, per-site models, trained flag) as it was before.
C1_FailedRetrainKeepsBank ==
    [][(InPlaceFailed \/ \E t \in Threads : ReloadFailed(t))
            => ServingBank' = ServingBank]_vars

\* the retrains in progress: reload threads inside SmartMLSystem() and the
\* handler inside _train_models()
RetrainsInProgress ==
    Cardinality({t \in Threads : pc[t] = "construct"})
        + (IF handler.pc = "training" THEN 1 ELSE 0)

\* C2: at no time are two retrains in progress, whichever entry points
\* started them.
C2_RetrainMutex == RetrainsInProgress <= 1

\* C3: a trigger that finds a reload in flight returns at once: it constructs
\* nothing, leaves ml_system, restart_flag, last_database_change and
\* is_reloading alone, and never starts a reload afterwards.
C3_SkippedTriggerIsNoOp ==
    [][\A t \in Threads :
        /\ (pc[t] = "locked" /\ is_reloading)
                => /\ pc'[t] \in {"locked", "skipped"}
                   /\ pc'[t] = "skipped"
                        => UNCHANGED <<ml_system, restart_flag, last_database_change,
                                       heap, is_reloading, saved>>
        /\ pc[t] = "skipped" => pc'[t] = "skipped"]_vars

\* a trigger was skipped while another thread's reload is still in flight
C3_Witness ==
    \E t, u \in Threads : pc[t] = "skipped" /\ pc[u] \in {"construct", "finally"}

\* the instance was built from a dataset too small to train on
SmallData(self) ==
    self.data.readable /\ (Rows(self.data) < 50 \/ CleanRows(self.data) < 30)

\* C5: with fewer than 50 raw rows or fewer than 30 clean rows loaded, the
\* bank is untrained after initialisation and after any retrain attempt.
C5_SmallDataUntrained ==
    (ml_system # 0 /\ SmallData(heap[ml_system])) => ~heap[ml_system].models_trained

\* C7: when a reload completes and leaves a trained bank serving, that bank
\* was fitted during the reload on the dataset just read, not restored from
\* saved files.
C7_ReloadTrainsOnFreshData ==
    [][\A t \in Threads :
        (pc[t] = "construct" /\ pc'[t] = "finally" /\ ml_system' = InstOfThread(t)
            /\ heap'[ml_system'].models_trained)
        => /\ heap'[ml_system'].demand_forecaster = csv.ver
           /\ heap'[ml_system'].scaler = csv.ver]_vars

----------------------------------------------------------------------------
(* Properties of the engine specification *)

\* the instance is there and its trained flag is up
Trained == ml_system # 0 /\ heap[IF ml_system = 0 THEN 1 ELSE ml_system].models_trained

\* the rows the last call worked on, and those its filters keep
ContextTable == _load_database_data(heap[IF ml_system = 0 THEN 1 ELSE ml_system], live)
ContextCells == Matching(call.request.equipment_type, call.request.site_id)

\* C4: on an untrained bank forecast_demand and detect_anomalies return the
\* "Models not trained" error, with no forecast point and no anomaly record,
\* before any live or training row is read.
C4_UntrainedFailsFast ==
    (call.fn \in {"forecast_demand", "detect_anomalies"} /\ ml_system # 0 /\ ~Trained)
        => /\ result.error = "Models not trained"
           /\ result.forecasts = <<>>
           /\ result.anomalies = {}
           /\ result.reads = 0

\* forecast_demand was called on an untrained instance, with rows to be had
C4_Witness ==
    /\ call.fn = "forecast_demand"
    /\ ml_system # 0 /\ ~Trained
    /\ live.available
    /\ result.error # None

\* C6: with the bank untrained or the engine missing, the forecast and the
\* anomaly handlers answer with an error and with no forecast or anomaly
\* numbers.
C6_UntrainedHandlersReportError ==
    (response.op \in {"demand_forecast", "anomaly_detection"} /\ ~Trained)
        => /\ response.status >= 400
           /\ response.body = NoResult

\* C8: on a trained bank with matching rows, forecast_demand asked for N days
\* returns N points, the i-th dated i days after the latest check-out date of
\* the context rows.
C8_ForecastReturnsNConsecutiveDays ==
    (/\ call.fn = "forecast_demand"
     /\ Trained
     /\ ContextTable.readable
     /\ NumRows(ContextTable, ContextCells) > 0
     /\ DaysOf(call.request) >= 1)
        => /\ result.error = None
           /\ Len(result.forecasts) = DaysOf(call.request)
           /\ \A i \in DOMAIN result.forecasts :
                result.forecasts[i].date
                    = DayOf(MaxDate(ContextTable, ContextCells)) + i

\* C9: every returned point has 0 <= predicted_demand <= cap, in the engine's
\* result and in what the request layer finally returns; the cap is
\* min(20, 1.5 x rows of the type, 2 x rows at the site), a term applying when
\* its scope is given (UNASSIGNED counts as no site scope).
C9_DemandWithinCap ==
    LET ty == call.request.equipment_type
        s == call.request.site_id
        c0 == 20000
        c1 == IF Truthy(ty)
              THEN Min(c0, 1500 * NumRows(ContextTable, {c \in ContextCells : c[1] = ty}))
              ELSE c0
        cap == IF Truthy(s) /\ s # UNASSIGNED
               THEN Min(c1, 2000 * NumRows(ContextTable, {c \in ContextCells : c[2] = s}))
               ELSE c1
        WithinCap(forecasts) ==
            \A i \in DOMAIN forecasts :
                /\ forecasts[i].predicted_demand >= 0
                /\ forecasts[i].predicted_demand * 100 <= cap
    IN  /\ (call.fn = "forecast_demand" /\ result.error = None)
                => WithinCap(result.forecasts)
        /\ (response.op = "demand_forecast" /\ response.status = 200)
                => WithinCap(response.body.forecasts)

\* C10: every confidence is within [0.3, 0.95]: the value
\* _calculate_forecast_confidence returns for any context, type, site and
\* date, and that of every point of a result and of a response.
C10_ConfidenceInRange ==
    /\ call.fn = "_calculate_forecast_confidence"
            => (300000 <= result.confidence /\ result.confidence <= 950000)
    /\ \A i \in DOMAIN result.forecasts :
            30 <= result.forecasts[i].confidence /\ result.forecasts[i].confidence <= 95
    /\ \A i \in DOMAIN response.body.forecasts :
            /\ 30 <= response.body.forecasts[i].confidence
            /\ response.body.forecasts[i].confidence <= 95

\* the confidence was computed on context rows none of which has a valid
\* check-out date, for a site with fewer than five rows
C10_Witness ==
    /\ call.fn = "_calculate_forecast_confidence"
    /\ NumRows(ContextTable, ContextCells) > 0
    /\ MaxDate(ContextTable, ContextCells) = NaT
    /\ result.confidence = 300000

\* C11 as stated: a forecast_demand call with the arguments of the call before
\* it, the bank and the live snapshot unchanged, returns the same output.
C11_RepeatedForecastIdentical ==
    [][(call.fn = "forecast_demand" /\ call'.fn = "forecast_demand"
            /\ call'.request = call.request)
        => result' = result]_vars

\* C11 amended: such a call returns the same output but for generated_at,
\* the time of the call.
C11_RepeatedForecastSameButTime ==
    [][(call.fn = "forecast_demand" /\ call'.fn = "forecast_demand"
            /\ call'.request = call.request)
        => [result' EXCEPT !.generated_at = 0] = [result EXCEPT !.generated_at = 0]]_vars

\* forecast_demand was called twice in a row with the same arguments and
\* returned points
C11_Witness ==
    /\ call.fn = "forecast_demand"
    /\ call.repeat
    /\ result.error = None
    /\ Len(result.forecasts) = MaxDays

\* C12 as stated: scanning the three rentals of the scenario (no engine hours
\* with five idle hours; eight idle hours; a utilization of 0.2 with two idle
\* hours) returns exactly three records: no_usage/high, high_idle_time/high,
\* low_utilization/medium.
C12_ScenarioThreeRecords ==
    (call.fn = "detect_anomalies" /\ call.request.equipment_id = None
        /\ live = ScenarioLive /\ result.error = None)
    => result.anomalies =
        {[cell |-> <<"Excavator", "S1">>, rows |-> 1,
          alert_type |-> "no_usage", severity |-> "high"],
         [cell |-> <<"Grader", "S1">>, rows |-> 1,
          alert_type |-> "high_idle_time", severity |-> "high"],
         [cell |-> <<"Grader", UNASSIGNED>>, rows |-> 1,
          alert_type |-> "low_utilization", severity |-> "medium"]}

\* the table the last detect_anomalies call scanned, and the cells of the
\* rows it scanned
ScannedTable == _load_database_data(heap[ml_system], live)
ScannedCells ==
    IF call.request.equipment_id # None
    THEN {IdCell(call.request.equipment_id)}
    ELSE {c \in Cells : ScannedTable.cnt[c] > 0}

C14_AnomalyRate ==
    (call.fn = "detect_anomalies" /\ result.error = None)
    => /\ result.active_rentals =
            (IF call.request.equipment_id # None THEN 1
             ELSE NumRows(ScannedTable, Cells))
       /\ result.active_rentals > 0
       /\ result.total_anomalies <= result.active_rentals
       /\ result.anomaly_rate =
            (IF result.active_rentals = 0 THEN 0
             ELSE (result.total_anomalies * 100000) \div result.active_rentals)

\* a scan found anomalies in some of the records it scanned, not in all
C14_Witness ==
    /\ call.fn = "detect_anomalies"
    /\ result.error = None
    /\ result.active_rentals > 1
    /\ result.total_anomalies > 0
    /\ result.total_anomalies < result.active_rentals
    /\ result.anomaly_rate = (result.total_anomalies * 100000) \div result.active_rentals

\* C15 as stated: every record detect_anomalies scans is a record of the live
\* Equipment table that is checked out (the rows of the live snapshot); no
\* training-history row is classified or counted in active_rentals.
C15_ScansLiveRecordsOnly ==
    (call.fn = "detect_anomalies" /\ result.error = None)
    => /\ live.available
       /\ \A c \in ScannedCells : live.cnt[c] > 0
       /\ result.active_rentals <= SumOver(live.cnt, Cells)
       /\ \A a \in result.anomalies : a.rows <= live.cnt[a.cell]

\* C16 as stated: the per-site model predicts iff site_id is given, is not
\* "UNASSIGNED", has a trained per-site model in the bank and equipment_type
\* is given, and the global model predicts otherwise; a request for a site
\* without a per-site model, on a bank whose global model is fitted and with
\* dated rows to forecast from, yields a forecast, not an error.
C16_SiteModelIffAvailable ==
    LET self == heap[ml_system]
        rq == call.request
        has_site_model ==
            /\ rq.site_id # None
            /\ rq.site_id # UNASSIGNED
            /\ rq.site_id \in DOMAIN self.site_specific_models
            /\ self.site_specific_models[rq.site_id] # Unfitted
        t == _load_database_data(self, live)
        cells == Matching(rq.equipment_type, rq.site_id)
    IN  call.fn = "forecast_demand"
        => /\ result.error = None
                => result.model = (IF has_site_model /\ rq.equipment_type # None
                                   THEN "site" ELSE "global")
           /\ (/\ self.models_trained
               /\ self.scaler # Unfitted /\ self.demand_forecaster # Unfitted
               /\ rq.site_id # None /\ ~has_site_model
               /\ rq.equipment_type \in {None} \cup self.equipment_encoder.classes
               /\ DaysOf(rq) >= 1
               /\ t.readable /\ NumRows(t, cells) > 0 /\ MaxDate(t, cells) # NaT)
                => result.error = None

\* C17 as stated: an engine constructed over a models directory that
\* save_models wrote holds the bank that was saved: the global model, the
\* scaler, both encoders and every per-site model that has a saved file.
C17_LoadRestoresSavedBank ==
    [][\A t \in Threads :
        (/\ pc[t] = "construct" /\ pc'[t] = "finally"
         /\ saved.exists /\ csv.readable /\ ~csv.bad)
        => LET new == heap'[InstOfThread(t)] IN
           /\ new.models_trained
           /\ new.demand_forecaster = saved.demand_forecaster
           /\ new.scaler = saved.scaler
           /\ new.equipment_encoder = saved.equipment_encoder
           /\ new.site_encoder = saved.site_encoder
           /\ \A s \in DOMAIN saved.site_files :
                /\ s \in DOMAIN new.site_specific_models
                /\ new.site_specific_models[s] = saved.site_files[s]]_vars

\* C18 as stated: a forecast for an equipment type or a site id that the
\* encoders did not see at fit time does not throw on encoding it: the
\* request is not answered with the encoder's exception.
C18_UnseenCategoryEncoded ==
    LET self == heap[ml_system]
        rq == call.request
        unseen ==
            \/ rq.equipment_type # None
                /\ rq.equipment_type \notin self.equipment_encoder.classes
            \/ rq.site_id # None /\ rq.site_id \notin self.site_encoder.classes
    IN  (call.fn = "forecast_demand" /\ self.models_trained /\ unseen)
        => result.error # "y contains previously unseen labels"

\* C19: forecast_demand and detect_anomalies answer every failure inside them
\* (models not trained, no data, no row matching the filters, an unknown
\* equipment id, a horizon below one day, no valid date, a label the encoders
\* do not know) with an error result that carries a message and no forecast
\* or anomaly; a result is either such an error or a forecast / a scan.
C19_FailuresAreErrorResults ==
    LET self == heap[ml_system]
        rq == call.request
        t == _load_database_data(self, live)
        cells == Matching(rq.equipment_type, rq.site_id)
        forecast_fails ==
            \/ ~self.models_trained
            \/ ~t.readable
            \/ NumRows(t, cells) = 0
            \/ DaysOf(rq) < 1
            \/ MaxDate(t, cells) = NaT
            \/ rq.equipment_type # None
                /\ rq.equipment_type \notin self.equipment_encoder.classes
            \/ rq.site_id # None /\ rq.site_id \notin self.site_encoder.classes
        scan_fails ==
            \/ ~self.models_trained
            \/ ~t.readable
            \/ NumRows(t, Cells) = 0
            \/ rq.equipment_id # None
                /\ (rq.equipment_id \notin KnownIds \/ t.cnt[IdCell(rq.equipment_id)] = 0)
        is_error ==
            /\ result.error # None
            /\ result.forecasts = <<>> /\ result.forecast_days = 0
            /\ result.anomalies = {} /\ result.active_rentals = 0
    IN  /\ call.fn = "forecast_demand"
            => /\ forecast_fails => is_error
               /\ is_error \/ (result.error = None /\ Len(result.forecasts) >= 1)
        /\ call.fn = "detect_anomalies"
            => /\ scan_fails => is_error
               /\ is_error \/ (result.error = None /\ result.active_rentals >= 1)

\* a forecast was asked for a type and site no row of the table matches
C19_Witness ==
    /\ call.fn = "forecast_demand"
    /\ heap[ml_system].models_trained
    /\ NumRows(_load_database_data(heap[ml_system], live),
               Matching(call.request.equipment_type, call.request.site_id)) = 0
    /\ result.error = "No data found for the specified parameters"

\* C20: when the live table cannot be read (the database file is missing or
\* the query raises), forecast_demand forecasts from the training dataset the
\* engine loaded: a request that the training rows can serve (rows match its
\* filters, its labels are known to the encoders, at least one day is asked)
\* gets its points, dated from the last check-out of the training rows, and
\* no request is answered with "No data available for forecasting".
C20_UnreachableFallsBackToTraining ==
    LET self == heap[ml_system]
        rq == call.request
        d == TableOf(self.data)
        cells == Matching(rq.equipment_type, rq.site_id)
        served ==
            /\ NumRows(d, cells) > 0
            /\ MaxDate(d, cells) # NaT
            /\ DaysOf(rq) >= 1
            /\ rq.equipment_type \in {None} \cup self.equipment_encoder.classes
            /\ rq.site_id \in {None} \cup self.site_encoder.classes
    IN  (call.fn = "forecast_demand" /\ ~live.available /\ self.models_trained)
        => /\ result.error # "No data available for forecasting"
           /\ served
                => /\ result.error = None
                   /\ Len(result.forecasts) = DaysOf(rq)
                   /\ result.forecasts[1].date =
                        FormatDate(PlusDays(MaxDate(d, cells), 1))

\* a forecast was returned while the live table could not be read
C20_Witness ==
    /\ call.fn = "forecast_demand"
    /\ ~live.available
    /\ call.request.equipment_type # None
    /\ result.error = None
    /\ Len(result.forecasts) = MaxDays

\* the paths on which the row's columns have been derived
DerivedOn == {m \in {metrics.training, metrics.live, metrics.scan} : m.computed}

\* C21 as stated: on the training path and on the live paths alike,
\* utilization_ratio lies in [0, 1] and is exactly 0 for a row whose engine
\* and idle hours sum to 0.
C21_UtilizationInUnitInterval ==
    \A m \in DerivedOn :
        /\ m.utilization_ratio >= 0 /\ m.utilization_ratio <= 10000
        /\ (metrics.row.engine + metrics.row.idle = 0) => m.utilization_ratio = 0

\* C22 as stated: for every pair of engine and idle hours, the
\* utilization_ratio and the efficiency_score derived at inference time (live
\* snapshot processing, anomaly scan) equal those the training preprocessing
\* derives for the same pair.
C22_SameFormulasOnBothPaths ==
    \A m \in {metrics.live, metrics.scan} :
        (m.computed /\ metrics.training.computed)
        => /\ m.utilization_ratio = metrics.training.utilization_ratio
           /\ m.efficiency_score = metrics.training.efficiency_score

\* C23 as stated: while a forecast or anomaly request is served, the bank it
\* reads is not mutated by a retrain, the whole request is served from one
\* bank (the instance the method runs on is the instance the guards
\* examined), and a reload in progress never blocks the handler's next step.
C23_InferenceOnOneUnmutatedBank ==
    /\ []((handler.op \in InferenceOps /\ handler.pc = "running")
            => handler.self = handler.checked)
    /\ [][(handler.op \in InferenceOps /\ handler.pc = "running"
                /\ handler'.pc = "running")
            => BankOf(heap'[handler.self]) = BankOf(heap[handler.self])]_vars
    /\ []((handler.op \in InferenceOps /\ handler.pc = "running")
            => ENABLED ServeReturn(handler.op))

\* C24 as stated: when the per-site model predicts, the 8 values passed to it
\* are, in order, the feature subset it was trained on: type code, month,
\* day_of_week, quarter, is_weekend, seasonal_factor, demand_7d_avg,
\* demand_30d_avg.
C24_SiteModelGetsItsFeatures ==
    (call.fn = "forecast_demand" /\ result.error = None /\ result.model = "site")
    => result.features =
        <<"equipment_type_encoded", "month", "day_of_week", "quarter",
          "is_weekend", "seasonal_factor", "demand_7d_avg", "demand_30d_avg">>

\* C25: every point's demand is the raw prediction multiplied by 0.6 on a
\* weekend date and by 0.8 in a winter month (12, 1, 2), by both when both
\* apply, and only then clamped: max(0, min(cap, raw x factors)), rounded to
\* one decimal; a raw value above the cap can end below it.
C25_ScaleThenClamp ==
    LET ty == call.request.equipment_type
        s == call.request.site_id
        c0 == 20000
        c1 == IF Truthy(ty)
              THEN Min(c0, 1500 * NumRows(ContextTable, {c \in ContextCells : c[1] = ty}))
              ELSE c0
        cap == IF Truthy(s) /\ s # UNASSIGNED
               THEN Min(c1, 2000 * NumRows(ContextTable, {c \in ContextCells : c[2] = s}))
               ELSE c1
    IN  (call.fn = "forecast_demand" /\ result.error = None)
        => \A i \in DOMAIN result.forecasts :
            LET point == result.forecasts[i]
                weekend == IF point.day_of_week \in {5, 6} THEN 6 ELSE 10
                winter == IF MonthOf(point.date * TicksPerDay) \in {12, 1, 2}
                          THEN 8 ELSE 10
                scaled == (predicts[i] * weekend * winter) \div 100
            IN  point.predicted_demand = RoundHalfEven(Max(0, Min(cap, scaled)), 100)

\* a raw prediction above the cap, for a winter weekend day, ended below the
\* cap
C25_Witness ==
    /\ call.fn = "forecast_demand"
    /\ result.error = None
    /\ predicts[1] = 30000
    /\ result.forecasts[1].day_of_week = 6
    /\ MonthOf(result.forecasts[1].date * TicksPerDay) = 12
    /\ result.forecasts[1].predicted_demand = 144

\* C26 as stated: the confidence is the product of exactly four factors,
\* clamped to [0.3, 0.95]: the data-volume factor (1.0 / 0.9 / 0.8 / 0.6 at
\* >= 100 / >= 50 / >= 20 / < 20 context rows), the site factor (1.0 / 0.9 /
\* 0.7 at >= 10 / >= 5 / < 5 site rows, 1.0 without a site), the type factor
\* (1.0 / 0.9 / 0.8 at >= 20 / >= 10 / < 10 type rows, 1.0 without a type)
\* and the temporal decay max(0.5, 1 - 0.01 x days from the last known date);
\* with >= 100 rows, no site and no type, one day ahead, it is 0.95.
C26_ConfidenceIsProductOfFourFactors ==
    LET ty == call.request.equipment_type
        s == call.request.site_id
        rows == NumRows(ContextTable, ContextCells)
        site_rows == NumRows(ContextTable, {c \in ContextCells : c[2] = s})
        type_rows == NumRows(ContextTable, {c \in ContextCells : c[1] = ty})
        volume == IF rows >= 100 THEN 10 ELSE IF rows >= 50 THEN 9
                  ELSE IF rows >= 20 THEN 8 ELSE 6
        site == IF s = None \/ s = UNASSIGNED THEN 10
                ELSE IF site_rows >= 10 THEN 10 ELSE IF site_rows >= 5 THEN 9 ELSE 7
        type == IF ty = None THEN 10
                ELSE IF type_rows >= 20 THEN 10 ELSE IF type_rows >= 10 THEN 9 ELSE 8
        last == MaxDate(ContextTable, ContextCells)
        Decay(day) == Max(50, 100 - (day - DayOf(last)))
        Clamped(x) == Min(950000, Max(300000, x))
    IN  /\ (call.fn = "_calculate_forecast_confidence" /\ last # NaT)
            => \E future_date \in FutureDates :
                result.confidence =
                    Clamped(10 * volume * site * type
                            * Max(50, 100 - ((future_date - last) \div TicksPerDay)))
        /\ (call.fn = "forecast_demand" /\ result.error = None)
            => \A i \in DOMAIN result.forecasts :
                result.forecasts[i].confidence =
                    RoundHalfEven(Clamped(10 * volume * site * type
                                          * Decay(result.forecasts[i].date)), 10000)
        /\ (call.fn = "forecast_demand" /\ result.error = None
                /\ rows >= 100 /\ s = None /\ ty = None)
            => result.forecasts[1].confidence = 95

\* C27 as stated: in every forecast returned, by forecast_demand and by the
\* demand-forecast handler, trend and trend_strength are derived from the
\* returned points: "stable" if the least-squares slope over the demands has
\* |slope| < 0.1, else "increasing" or "decreasing" by its sign; the strength
\* is R squared rounded to 3 decimals, 0 when all demands are identical, and
\* "stable" / 0 for fewer than 2 points.
C27_TrendDerivedFromPoints ==
    LET TrendOf(points) ==
            LET n == Len(points)
                y == [i \in 1..n |-> points[i].predicted_demand]
                Pairs == {q \in (1..n) \X (1..n) : q[1] < q[2]}
                sxy == SumOver([q \in Pairs |-> (q[2] - q[1]) * (y[q[2]] - y[q[1]])], Pairs)
                sxx == SumOver([q \in Pairs |-> (q[2] - q[1]) * (q[2] - q[1])], Pairs)
                syy == SumOver([q \in Pairs |-> (y[q[2]] - y[q[1]]) * (y[q[2]] - y[q[1]])],
                               Pairs)
            IN  IF n < 2 \/ syy = 0 THEN <<"stable", 0>>
                ELSE <<IF sxy < sxx /\ -sxy < sxx THEN "stable"
                       ELSE IF sxy > 0 THEN "increasing" ELSE "decreasing",
                       RoundHalfEven(1000 * sxy * sxy, sxx * syy)>>
    IN  /\ (call.fn = "forecast_demand" /\ result.error = None)
            => <<result.trend, result.trend_strength>> = TrendOf(result.forecasts)
        /\ (response.op = "demand_forecast" /\ response.status = 200)
            => <<response.body.trend, response.body.trend_strength>>
                    = TrendOf(response.body.forecasts)

\* C28: after any sequence of training passes, on every engine, every key of
\* the per-site model map is a site other than "UNASSIGNED" with at least 10
\* records and at least 5 clean feature rows in the engine's dataset, and no
\* entry is an absent model.
C28_SiteModelsOnlyForEligibleSites ==
    \A i \in InstIds :
        \A s \in DOMAIN heap[i].site_specific_models :
            /\ s # UNASSIGNED
            /\ SumOver(heap[i].data.cnt, {c \in Cells : c[2] = s}) >= 10
            /\ SumOver(heap[i].data.cnt, {c \in Cells : c[2] = s})
                    - heap[i].data.siteDirty[s] >= 5
            /\ heap[i].site_specific_models[s] # Unfitted
            /\ heap[i].site_specific_models[s] = heap[i].data.ver

\* the serving engine was retrained in place and has a per-site model for
\* one site but none for a site with 12 records of which 4 are clean
C28_Witness ==
    /\ response.op = "retrain_models" /\ response.status = 200
    /\ ml_system # 0
    /\ DOMAIN heap[ml_system].site_specific_models = {"S1"}
    /\ SumOver(heap[ml_system].data.cnt, {c \in Cells : c[2] = "S2"}) >= 10

\* thread t is between "is_reloading = True" and the end of the finally clause
Reloading(t) == pc[t] \in {"try", "construct", "finally"}

\* thread t was started and has not tested is_reloading yet
Pending(t) == pc[t] \in {"start", "locked"}

\* C29: every reload that on_database_change started eventually clears
\* is_reloading, whether SmartMLSystem() returned or raised, and restart_flag
\* is false when it finishes; the flag is set exactly while a reload is in
\* progress, so every notification gets to test it, and one that tests it
\* with no reload in progress is not skipped and starts a reload.
C29_ReloadReleasesFlag ==
    /\ (is_reloading ~> ~is_reloading)
    /\ [](is_reloading <=> \E t \in Threads : Reloading(t))
    /\ [][\A t \in Threads :
            /\ (Reloading(t) /\ ~Reloading(t)')
                    => (pc'[t] = "done" /\ ~is_reloading' /\ ~restart_flag')
            /\ (Pending(t) /\ ~Pending(t)' /\ ~is_reloading)
                    => (pc'[t] = "try" /\ is_reloading')
            /\ (Pending(t) /\ pc'[t] = "skipped")
                    => \E u \in Threads \ {t} : Reloading(u)]_vars
    /\ ((\E t \in Threads : Pending(t)) ~> (\A t \in Threads : ~Pending(t)))

\* one reload has finished and a notification that came later has started a
\* new one
C29_Witness ==
    \E t, u \in Threads :
        /\ pc[t] = "done"
        /\ pc[u] = "construct" /\ is_reloading /\ restart_flag

\* the events handled so far
Handled == 1..Len(watch.events)

\* the i-th event is a file whose name ends in rental.db or dev.db
Watched(i) ==
    /\ ~watch.events[i].event.is_directory
    /\ \E n \in 1..3 :
        /\ Len(watch.events[i].event.src_path) = n
        /\ watch.events[i].event.src_path[n] \in {"rental.db", "dev.db"}

\* C30: an event starts the callback on a new thread exactly when it is a
\* modification of a file named ...rental.db or ...dev.db and no event for
\* the same file that started the callback came less than 3 seconds before
\* it: dropped events, events for other files and directory events do not
\* count, and directory events and other files start nothing.
C30_DebouncePerFile ==
    \A i \in Handled :
        watch.events[i].started <=>
            /\ Watched(i)
            /\ \A j \in 1..(i - 1) :
                (/\ watch.events[j].started
                 /\ watch.events[j].event.src_path = watch.events[i].event.src_path)
                    => watch.events[i].time - watch.events[j].time >= 3

\* an event for rental.db was accepted, one a second later was dropped, and
\* one 3 seconds after the first and 2 seconds after the dropped one was
\* accepted
C30_Witness ==
    /\ Len(watch.events) = 3
    /\ \A i \in 1..3 : watch.events[i].event = [src_path |-> RentalDb, is_directory |-> FALSE]
    /\ watch.events[1].started /\ ~watch.events[2].started /\ watch.events[3].started
    /\ watch.events[2].time = watch.events[1].time + 1
    /\ watch.events[3].time = watch.events[1].time + 3

====
